---------------------------- MODULE Spec2Model ----------------------------
(***************************************************************************)
(* goodblaster/errors: error containers (type Error), formatted           *)
(* derivatives (type FormattedError), chain matching (Is / As / Unwrap),   *)
(* JSON marshalling                                                        *)
(* and typed-nil detection (IsNil).                                        *)
(*                                                                         *)
(* The repository holds two revisions of errors.go.  `rev` selects one:    *)
(*   RevFlat  = src/errors.go          (exported Err field, Wrap flattens  *)
(*              a container argument, Error has no Unwrap method, the      *)
(*              package Is / As / Unwrap open the container themselves);   *)
(*   RevChain = src/unnamed/part_001   (unexported err field, Wrap keeps   *)
(*              the container in the chain, Error has an Unwrap method,    *)
(*              Is / As / Unwrap delegate to the standard library).        *)
(* Format / FormattedError come from src/formatted.go in both.             *)
(*                                                                         *)
(* Go values are modelled as interface words [tab, data]: tab is the       *)
(* dynamic type, data the data word (a heap address, 0 for a nil pointer). *)
(* Strings are sequences of one-character strings.                         *)
(***************************************************************************)
EXTENDS Naturals, Integers, Sequences, FiniteSets, TLC

VARIABLES rev, limit, heap, log, res

vars == <<rev, limit, heap, log, res>>

RevFlat == "errors.go"
RevChain == "part_001"

(***************************************************************************)
(* Bounds of the exploration.                                              *)
(***************************************************************************)
MaxCalls == 2
MaxDepth == 3
MaxJoin == 2

(***************************************************************************)
(* Strings.                                                                *)
(***************************************************************************)
RECURSIVE Concat(_)
Concat(ss) == IF ss = <<>> THEN <<>> ELSE Head(ss) \o Concat(Tail(ss))

\* The value a faulting call yields: a run-time panic (nil dereference).
Panic == <<"panic: nil pointer dereference">>

\* strings.Join(parts, sep); a faulting part makes the whole call fault.
RECURSIVE JoinText(_, _)
JoinText(parts, sep) ==
    IF parts = <<>> THEN <<>>
    ELSE IF Head(parts) = Panic THEN Panic
    ELSE IF Len(parts) = 1 THEN Head(parts)
    ELSE LET rest == JoinText(Tail(parts), sep)
         IN  IF rest = Panic THEN Panic ELSE Head(parts) \o sep \o rest

\* strings.Split(s, "\n"): always at least one element.
RECURSIVE SplitFrom(_, _, _)
SplitFrom(s, i, cur) ==
    IF i > Len(s) THEN <<cur>>
    ELSE IF s[i] = "\n" THEN <<cur>> \o SplitFrom(s, i + 1, <<>>)
    ELSE SplitFrom(s, i + 1, Append(cur, s[i]))

Split(s) == SplitFrom(s, 1, <<>>)

(***************************************************************************)
(* fmt.Sprintf for the verbs and arguments the model draws: arguments are  *)
(* ints and strings, format characters carry no flags, width or index.     *)
(***************************************************************************)
IntArg(digits) == [kind |-> "int", text |-> digits]
StrArg(s) == [kind |-> "string", text |-> s]

KindName(a) == IF a.kind = "int" THEN <<"i", "n", "t">>
               ELSE <<"s", "t", "r", "i", "n", "g">>

GoodVerb(a, v) == IF a.kind = "int" THEN v \in {"d", "v"} ELSE v \in {"s", "v"}

\* One operand printed under verb v; a mismatch prints %!v(type=value).
PrintArg(a, v) ==
    IF GoodVerb(a, v) THEN a.text
    ELSE <<"%", "!", v, "(">> \o KindName(a) \o <<"=">> \o a.text \o <<")">>

MissingString == <<"(", "M", "I", "S", "S", "I", "N", "G", ")">>
NoVerbString == <<"%", "!", "(", "N", "O", "V", "E", "R", "B", ")">>

RECURSIVE ExtraList(_, _)
ExtraList(a, n) ==
    IF n > Len(a) THEN <<>>
    ELSE KindName(a[n]) \o <<"=">> \o a[n].text
         \o (IF n < Len(a) THEN <<",", " ">> ELSE <<>>) \o ExtraList(a, n + 1)

\* Operands left over once the format is consumed: %!(EXTRA type=value, ...).
Extra(a, n) ==
    IF n > Len(a) THEN <<>>
    ELSE <<"%", "!", "(", "E", "X", "T", "R", "A", " ">> \o ExtraList(a, n) \o <<")">>

RECURSIVE DoPrintf(_, _, _, _)
DoPrintf(f, a, i, n) ==
    IF i > Len(f) THEN Extra(a, n)
    ELSE IF f[i] # "%" THEN <<f[i]>> \o DoPrintf(f, a, i + 1, n)
    ELSE IF i = Len(f) THEN NoVerbString \o Extra(a, n)
    ELSE IF f[i + 1] = "%" THEN <<"%">> \o DoPrintf(f, a, i + 2, n)
    ELSE IF n > Len(a)
         THEN <<"%", "!", f[i + 1]>> \o MissingString \o DoPrintf(f, a, i + 2, n)
    ELSE PrintArg(a[n], f[i + 1]) \o DoPrintf(f, a, i + 2, n + 1)

Sprintf(f, a) == DoPrintf(f, a, 1, 1)

(***************************************************************************)
(* encoding/json for a []string: Marshal and the matching Unmarshal.       *)
(***************************************************************************)
EscapeChar(c) ==
    CASE c = "\"" -> <<"\\", "\"">>
      [] c = "\\" -> <<"\\", "\\">>
      [] c = "\n" -> <<"\\", "n">>
      [] c = "<"  -> <<"\\", "u", "0", "0", "3", "c">>
      [] c = ">"  -> <<"\\", "u", "0", "0", "3", "e">>
      [] c = "&"  -> <<"\\", "u", "0", "0", "2", "6">>
      [] OTHER    -> <<c>>

RECURSIVE EscapeString(_)
EscapeString(s) ==
    IF s = <<>> THEN <<>> ELSE EscapeChar(Head(s)) \o EscapeString(Tail(s))

RECURSIVE MarshalElems(_)
MarshalElems(xs) ==
    IF xs = <<>> THEN <<>>
    ELSE <<"\"">> \o EscapeString(Head(xs)) \o <<"\"">>
         \o (IF Len(xs) > 1 THEN <<",">> ELSE <<>>) \o MarshalElems(Tail(xs))

JSONMarshal(xs) == <<"[">> \o MarshalElems(xs) \o <<"]">>

\* Unmarshal of a JSON array of strings, reading b from position i; `cur` is
\* the string being read (inStr) and `acc` the elements read so far.
RECURSIVE Decode(_, _, _, _, _)
Decode(b, i, inStr, cur, acc) ==
    IF i > Len(b) THEN acc
    ELSE IF ~inStr
         THEN IF b[i] = "\"" THEN Decode(b, i + 1, TRUE, <<>>, acc)
              ELSE Decode(b, i + 1, FALSE, <<>>, acc)
    ELSE IF b[i] = "\"" THEN Decode(b, i + 1, FALSE, <<>>, Append(acc, cur))
    ELSE IF b[i] # "\\" THEN Decode(b, i + 1, TRUE, Append(cur, b[i]), acc)
    ELSE IF b[i + 1] = "n" THEN Decode(b, i + 2, TRUE, Append(cur, "\n"), acc)
    ELSE IF b[i + 1] = "u"
         THEN LET code == <<b[i + 2], b[i + 3], b[i + 4], b[i + 5]>>
                  ch == CASE code = <<"0", "0", "3", "c">> -> "<"
                          [] code = <<"0", "0", "3", "e">> -> ">"
                          [] OTHER -> "&"
              IN  Decode(b, i + 6, TRUE, Append(cur, ch), acc)
    ELSE Decode(b, i + 2, TRUE, Append(cur, b[i + 1]), acc)

JSONUnmarshal(b) == Decode(b, 1, FALSE, <<>>, <<>>)

(***************************************************************************)
(* Go values.  An error is an interface value: two words, the dynamic type *)
(* and the data word.  Pointer types keep the pointer itself in the data   *)
(* word; value types are boxed and the data word points at the copy.       *)
(***************************************************************************)
TErrorString == "*errors.errorString"
TJoinError == "*errors.joinError"
TWrapError == "*fmt.wrapError"
TError == "*Error"
TFormattedError == "*FormattedError"
TCustomError == "*CustomError"
TPtrError == "*ptrError"
TValError == "valError"
TStringError == "stringError"

PointerTypes == {TErrorString, TJoinError, TWrapError, TError, TFormattedError,
                 TCustomError, TPtrError}

Iface(t, d) == [tab |-> t, data |-> d]

\* The nil interface value: both words zero.
NilErr == Iface("nil", 0)

\* A heap object.  msg: the text of a string-carrying error; err: the error
\* field of an Error or wrapError; errs: the causes of a joinError; parent:
\* the address of a FormattedError's origin.
Cell(t, m, e, es, p) == [typ |-> t, msg |-> m, err |-> e, errs |-> es, parent |-> p]

\* Conversion of a pointer to the error interface: the data word is the
\* pointer, so a nil pointer gives tab # nil with data = 0.
BoxPointer(t, addr) == Iface(t, addr)

\* Conversion of a non-pointer value to the error interface: the value is
\* copied to the heap cell at addr and the data word points at it.
BoxValue(t, addr) == Iface(t, addr)

\* Go's == on two interface values of comparable dynamic types.
IfaceEq(a, b) ==
    /\ a.tab = b.tab
    /\ IF a.tab \in PointerTypes \/ a.tab = "nil" THEN a.data = b.data
       ELSE heap[a.data].msg = heap[b.data].msg

(***************************************************************************)
(* Methods of the error types.                                             *)
(***************************************************************************)
\* HasUnwrap with the container's Unwrap method left out.
HasUnwrap_ErrorOpaque(v) == v.tab \in {TFormattedError, TWrapError}

\* Whether the dynamic type has a method Unwrap() error.
HasUnwrap(v) ==
    \/ v.tab \in {TFormattedError, TWrapError}
    \/ v.tab = TError /\ rev = RevChain

\* Whether the dynamic type has a method Unwrap() []error.
HasUnwrapMulti(v) == v.tab = TJoinError

\* The single-level Unwrap method of v.
UnwrapMethod(v) ==
    IF v.tab = TFormattedError THEN BoxPointer(TError, heap[v.data].parent)
    ELSE heap[v.data].err

\* The Error() method of v; Panic when it dereferences a nil error.
RECURSIVE ErrorOf(_)
ErrorOf(v) ==
    CASE v = NilErr -> Panic
      [] v.tab = TError ->
            IF heap[v.data].err = NilErr THEN Panic ELSE ErrorOf(heap[v.data].err)
      [] v.tab = TJoinError ->
            JoinText([i \in 1..Len(heap[v.data].errs) |-> ErrorOf(heap[v.data].errs[i])],
                     <<"\n">>)
      [] v.tab = TPtrError /\ v.data = 0 ->
            <<"<", "n", "i", "l", " ", "p", "t", "r", "E", "r", "r", "o", "r", ">">>
      [] OTHER -> heap[v.data].msg

(***************************************************************************)
(* The standard library's errors package.                                  *)
(***************************************************************************)
\* errors.New: a fresh *errorString on heap h.
ErrorsNew(h, msg) ==
    [h |-> Append(h, Cell(TErrorString, msg, NilErr, <<>>, 0)),
     v |-> BoxPointer(TErrorString, Len(h) + 1)]

\* fmt.Errorf without a %w verb: errors.New of the formatted text.
FmtErrorf(h, msg, args) == ErrorsNew(h, Sprintf(msg, args))

\* errors.Join: nil entries are discarded; nil when nothing is left.
ErrorsJoin(h, errs) ==
    LET kept == SelectSeq(errs, LAMBDA e : e # NilErr)
    IN  IF kept = <<>> THEN [h |-> h, v |-> NilErr]
        ELSE [h |-> Append(h, Cell(TJoinError, <<>>, NilErr, kept, 0)),
              v |-> BoxPointer(TJoinError, Len(h) + 1)]

\* errors.Unwrap: the Unwrap() error method if there is one, else nil.
ErrorsUnwrap(err) ==
    IF err # NilErr /\ HasUnwrap(err) THEN UnwrapMethod(err) ELSE NilErr

\* errors.Is: walks err's tree (Unwrap() error, then Unwrap() []error
\* depth-first) looking for a node equal to target.
RECURSIVE IsWalk(_, _)
IsWalk(err, target) ==
    IF IfaceEq(err, target) THEN TRUE
    ELSE IF HasUnwrap(err)
         THEN LET u == UnwrapMethod(err)
              IN  IF u = NilErr THEN FALSE ELSE IsWalk(u, target)
    ELSE IF HasUnwrapMulti(err)
         THEN \E i \in 1..Len(heap[err.data].errs) :
                 IsWalk(heap[err.data].errs[i], target)
    ELSE FALSE

ErrorsIs(err, target) ==
    IF err = NilErr \/ target = NilErr THEN err = target
    ELSE IsWalk(err, target)

\* Whether a value of dynamic type t can be assigned to a target of the
\* concrete type T.
AssignableTo(t, T) == t = T

\* errors.As: the first node of err's tree, depth-first, assignable to T;
\* NilErr when there is none.
RECURSIVE AsWalk(_, _)
RECURSIVE AsWalkList(_, _, _)
AsWalk(err, T) ==
    IF AssignableTo(err.tab, T) THEN err
    ELSE IF HasUnwrap(err)
         THEN LET u == UnwrapMethod(err)
              IN  IF u = NilErr THEN NilErr ELSE AsWalk(u, T)
    ELSE IF HasUnwrapMulti(err) THEN AsWalkList(heap[err.data].errs, 1, T)
    ELSE NilErr

AsWalkList(errs, i, T) ==
    IF i > Len(errs) THEN NilErr
    ELSE LET f == AsWalk(errs[i], T)
         IN  IF f # NilErr THEN f ELSE AsWalkList(errs, i + 1, T)

ErrorsAs(err, T) == IF err = NilErr THEN NilErr ELSE AsWalk(err, T)


(***************************************************************************)
(* The package: constructors.  Each yields the heap after the call, the    *)
(* value returned and whether the call panicked.                           *)
(***************************************************************************)
Ret(h, v) == [h |-> h, v |-> v, panic |-> FALSE]
Fault == [h |-> heap, v |-> NilErr, panic |-> TRUE]

\* &Error{Err: e}
NewErrorStruct(h, e) ==
    Ret(Append(h, Cell(TError, <<>>, e, <<>>, 0)), BoxPointer(TError, Len(h) + 1))

New(msg) ==
    LET s == ErrorsNew(heap, msg) IN NewErrorStruct(s.h, s.v)

Newf(msg, args) ==
    LET s == FmtErrorf(heap, msg, args) IN NewErrorStruct(s.h, s.v)

Wrapf(err, msg, args) ==
    IF err = NilErr
    THEN LET s == FmtErrorf(heap, msg, args) IN NewErrorStruct(s.h, s.v)
    ELSE LET inner == IF rev = RevFlat /\ err.tab = TError
                      THEN heap[err.data].err ELSE err
             s == FmtErrorf(heap, msg, args)
             j == ErrorsJoin(s.h, <<s.v, inner>>)
         IN  NewErrorStruct(j.h, j.v)

\* Wrap writing the new join into the container it was given.
Wrap_InPlace(err, msg) ==
    IF err = NilErr
    THEN LET s == FmtErrorf(heap, msg, <<>>) IN NewErrorStruct(s.h, s.v)
    ELSE IF err.tab = TError
    THEN LET s == FmtErrorf(heap, msg, <<>>)
             j == ErrorsJoin(s.h, <<s.v, heap[err.data].err>>)
         IN  Ret([j.h EXCEPT ![err.data].err = j.v], err)
    ELSE LET s == FmtErrorf(heap, msg, <<>>)
             j == ErrorsJoin(s.h, <<s.v, err>>)
         IN  NewErrorStruct(j.h, j.v)

Wrap(err, msg) ==
    IF err = NilErr
    THEN LET s == FmtErrorf(heap, msg, <<>>) IN NewErrorStruct(s.h, s.v)
    ELSE LET inner == IF rev = RevFlat /\ err.tab = TError
                      THEN heap[err.data].err ELSE err
             s == FmtErrorf(heap, msg, <<>>)
             j == ErrorsJoin(s.h, <<s.v, inner>>)
         IN  NewErrorStruct(j.h, j.v)

Join(errs) ==
    LET j == ErrorsJoin(heap, errs) IN NewErrorStruct(j.h, j.v)

\* (e *Error) Format(args...): Sprintf over the text of e's error.
Format(e, args) ==
    LET text == ErrorOf(heap[e.data].err)
    IN  IF text = Panic THEN Fault
        ELSE Ret(Append(heap, Cell(TFormattedError, Sprintf(text, args), NilErr,
                                   <<>>, e.data)),
                 BoxPointer(TFormattedError, Len(heap) + 1))

(***************************************************************************)
(* The package: queries.                                                   *)
(***************************************************************************)
\* Unformatted: the parent pointer of a FormattedError, else the nil pointer.
Unformatted(err) ==
    IF err.tab = TFormattedError THEN heap[err.data].parent ELSE 0

\* The container's error when v is a container, else v itself.
OpenContainer(v) == IF v.tab = TError THEN heap[v.data].err ELSE v

Is(err, target) ==
    LET e == Unformatted(err)
        err1 == IF e # 0 THEN BoxPointer(TError, e) ELSE err
    IN  IF rev = RevFlat
        THEN ErrorsIs(OpenContainer(err1), OpenContainer(target))
        ELSE ErrorsIs(err1, target)

\* As(err, &target) with target of type T: the value bound to target, or
\* NilErr when As returns false.
RECURSIVE As(_, _)
As(err, T) ==
    IF rev = RevFlat /\ err.tab = TError THEN As(heap[err.data].err, T)
    ELSE ErrorsAs(err, T)

Unwrap(err) ==
    IF rev = RevFlat THEN ErrorsUnwrap(OpenContainer(err))
    ELSE ErrorsUnwrap(err)

\* (e Error) MarshalJSON: the bytes, or Panic when e.Error() faults.
MarshalJSON(e) ==
    LET text == ErrorOf(e)
    IN  IF text = Panic THEN Panic ELSE JSONMarshal(Split(text))

\* IsNil reduced to the plain comparison with nil.
IsNil_InterfaceOnly(err) == err = NilErr

\* IsNil: the interface is nil, or its data word is.
IsNil(err) == err = NilErr \/ err.data = 0

(***************************************************************************)
(* The caller's values: errors made outside the package that the calls     *)
(* below are given, and the inputs they draw.                              *)
(***************************************************************************)
Fixtures ==
    << Cell(TErrorString, <<"b">>, NilErr, <<>>, 0),              \* errors.New("b")
       Cell(TCustomError, <<"c">>, NilErr, <<>>, 0),              \* &CustomError{"c"}
       Cell(TPtrError, <<"p">>, NilErr, <<>>, 0),                 \* &ptrError{"p"}
       Cell(TValError, <<"v">>, NilErr, <<>>, 0),                 \* valError{"v"}
       Cell(TStringError, <<"s">>, NilErr, <<>>, 0),              \* stringError("s")
       Cell(TWrapError, <<"w">>, BoxPointer(TPtrError, 0), <<>>, 0) >> \* Errorf("%w", nil ptr)

StdErr == BoxPointer(TErrorString, 1)
CustomErr == BoxPointer(TCustomError, 2)
PtrErr == BoxPointer(TPtrError, 3)
TypedNil == BoxPointer(TPtrError, 0)
ValErr == BoxValue(TValError, 4)
StringErr == BoxValue(TStringError, 5)
WrapsTypedNil == BoxPointer(TWrapError, 6)

Msgs == { <<>>, <<"%", "d", "\n", "\"">> }
ArgLists == { <<>>, << IntArg(<<"7">>) >> }
TargetTypes == {TError, TFormattedError, TCustomError}

\* The values returned by the constructor calls made so far.
Returned == { log[i].out : i \in {k \in 1..Len(log) : ~log[k].panic} }

\* Errors the caller passes to the package's functions.
ErrArgs == {NilErr, StdErr, CustomErr} \cup Returned

\* Errors the caller inspects with Is, As and Unformatted.
Subjects == {NilErr, StdErr} \cup Returned

\* Errors the caller passes to IsNil.
NilArgs == {NilErr, PtrErr, TypedNil, ValErr, StringErr, WrapsTypedNil}
           \cup Returned

Containers == {v \in Returned : v.tab = TError}

SeqsUpTo(S, n) == UNION {[1..k -> S] : k \in 0..n}

\* The record of one call: the function, its inputs and what it gave back.
Call(op, in, msg, args, typ, out, text, flag, panic) ==
    [op |-> op, in |-> in, msg |-> msg, args |-> args, typ |-> typ,
     out |-> out, text |-> text, flag |-> flag, panic |-> panic]

NoCall == Call("none", <<>>, <<>>, <<>>, "", NilErr, <<>>, FALSE, FALSE)

InitAt(r, n) ==
    /\ rev = r
    /\ limit = n
    /\ heap = Fixtures
    /\ log = <<>>
    /\ res = NoCall

Init == InitAt(RevFlat, MaxCalls)
InitChain == InitAt(RevChain, MaxCalls)
InitWraps == InitAt(RevChain, MaxDepth)

\* A constructor call: the heap grows, the call is logged.
Construct(op, in, msg, args, r) ==
    /\ Len(log) < limit
    /\ heap' = r.h
    /\ res' = Call(op, in, msg, args, "", r.v, <<>>, FALSE, r.panic)
    /\ log' = Append(log, res')
    /\ UNCHANGED <<rev, limit>>

\* A query: nothing but the result changes.
Query(c) ==
    /\ res' = c
    /\ UNCHANGED <<rev, limit, heap, log>>

NewCall ==
    \E m \in Msgs : Construct("New", <<>>, m, <<>>, New(m))

NewfCall ==
    \E m \in Msgs, a \in ArgLists : Construct("Newf", <<>>, m, a, Newf(m, a))

WrapCall ==
    \E e \in ErrArgs, m \in Msgs : Construct("Wrap", <<e>>, m, <<>>, Wrap(e, m))

WrapfCall ==
    \E e \in ErrArgs, m \in Msgs, a \in ArgLists \ {<<>>} :
        Construct("Wrapf", <<e>>, m, a, Wrapf(e, m, a))

JoinCall ==
    \E es \in SeqsUpTo(ErrArgs, MaxJoin) : Construct("Join", es, <<>>, <<>>, Join(es))

FormatCall ==
    \E c \in Containers, a \in ArgLists :
        Construct("Format", <<c>>, <<>>, a, Format(c, a))

IsCall ==
    \E e \in Subjects, t \in ErrArgs :
        Query(Call("Is", <<e, t>>, <<>>, <<>>, "", NilErr, <<>>, Is(e, t), FALSE))

AsCall ==
    \E e \in Subjects, T \in TargetTypes :
        LET b == As(e, T)
        IN  Query(Call("As", <<e>>, <<>>, <<>>, T, b, <<>>, b # NilErr, FALSE))

UnwrapCall ==
    \E e \in Subjects \cup {WrapsTypedNil} :
        Query(Call("Unwrap", <<e>>, <<>>, <<>>, "", Unwrap(e), <<>>, FALSE, FALSE))

UnformattedCall ==
    \E e \in Subjects :
        LET p == Unformatted(e)
        IN  Query(Call("Unformatted", <<e>>, <<>>, <<>>, "",
                       IF p = 0 THEN NilErr ELSE BoxPointer(TError, p),
                       <<>>, p # 0, FALSE))

ErrorCall ==
    \E e \in Returned :
        LET t == ErrorOf(e)
        IN  Query(Call("Error", <<e>>, <<>>, <<>>, "", NilErr,
                       IF t = Panic THEN <<>> ELSE t, FALSE, t = Panic))

MarshalJSONCall ==
    \E c \in Containers :
        LET b == MarshalJSON(c)
        IN  Query(Call("MarshalJSON", <<c>>, <<>>, <<>>, "", NilErr,
                       IF b = Panic THEN <<>> ELSE b, FALSE, b = Panic))

IsNilCall ==
    \E e \in NilArgs :
        Query(Call("IsNil", <<e>>, <<>>, <<>>, "", NilErr, <<>>, IsNil(e), FALSE))

Next ==
    \/ NewCall
    \/ NewfCall
    \/ WrapCall
    \/ WrapfCall
    \/ JoinCall
    \/ FormatCall
    \/ IsCall
    \/ AsCall
    \/ UnwrapCall
    \/ UnformattedCall
    \/ ErrorCall
    \/ MarshalJSONCall
    \/ IsNilCall

\* The program built on src/errors.go.
Spec == Init /\ [][Next]_vars

\* The program built on src/unnamed/part_001.
SpecChain == InitChain /\ [][Next]_vars

\* A caller of src/unnamed/part_001 that builds Wrap chains and matches them.
NextWraps ==
    \/ NewCall
    \/ WrapCall
    \/ IsCall
    \/ AsCall
    \/ UnwrapCall

SpecWraps == InitWraps /\ [][NextWraps]_vars

\* A caller of src/errors.go that tests the errors it holds with IsNil.
NextIsNil ==
    \/ NewCall
    \/ WrapCall
    \/ FormatCall
    \/ IsNilCall

SpecIsNil == Init /\ [][NextIsNil]_vars

(***************************************************************************)
(* Properties.                                                             *)
(***************************************************************************)
\* The Wrap / Wrapf calls made so far on a non-absent error.
WrapCalls ==
    {i \in 1..Len(log) : log[i].op \in {"Wrap", "Wrapf"} /\ log[i].in[1] # NilErr}

\* The error a Wrap / Wrapf result was built from; NilErr for any other value.
WrapArg(v) ==
    IF \E i \in WrapCalls : log[i].out = v
    THEN (CHOOSE r \in {log[i] : i \in WrapCalls} : r.out = v).in[1]
    ELSE NilErr

\* e(n-1), ..., e0 for en = v: every earlier link of v's Wrap chain.
RECURSIVE WrapAncestors(_)
WrapAncestors(v) ==
    LET a == WrapArg(v)
    IN  IF a = NilErr THEN {} ELSE {a} \cup WrapAncestors(a)

\* The chain of an error, depth-first: the error itself, then what it holds
\* (a container's error, a derivative's origin, a join's causes in order).
RECURSIVE ChainOf(_)
ChainOf(v) ==
    IF v = NilErr \/ v.data = 0 THEN (IF v = NilErr THEN <<>> ELSE <<v>>)
    ELSE <<v>> \o
         (CASE v.tab \in {TError, TWrapError} -> ChainOf(heap[v.data].err)
            [] v.tab = TFormattedError -> ChainOf(BoxPointer(TError, heap[v.data].parent))
            [] v.tab = TJoinError ->
                 Concat([i \in 1..Len(heap[v.data].errs) |-> ChainOf(heap[v.data].errs[i])])
            [] OTHER -> <<>>)

\* The first error of type T in v's chain; NilErr when there is none.
FirstOfType(v, T) ==
    LET ch == ChainOf(v)
        hits == {i \in 1..Len(ch) : AssignableTo(ch[i].tab, T)}
    IN  IF hits = {} THEN NilErr
        ELSE ch[CHOOSE i \in hits : \A j \in hits : i <= j]

\* C1: every link of a Wrap chain stays matchable: for en = Wrap(e(n-1), mn),
\* ..., e1 = Wrap(e0, m1) with e0 not absent, Is(en, ej) is true for all j < n.
C1_WrapChainMatches ==
    \A i \in WrapCalls : \A a \in WrapAncestors(log[i].out) : Is(log[i].out, a)

\* C2: Format on any container returns a derivative that matches the
\* container: Is(c.Format(args...), c) is true.
C2_FormatMatchesOrigin ==
    res.op = "Format" => ~res.panic /\ Is(res.out, res.in[1])

\* C3: Wrap(nil, msg) does not fault and returns a container whose Error()
\* is exactly msg.
C3_WrapNilKeepsMessage ==
    (res.op = "Wrap" /\ res.in[1] = NilErr) =>
        /\ ~res.panic
        /\ res.out.tab = TError /\ res.out.data # 0
        /\ ErrorOf(res.out) = res.msg

\* C4: Unwrap(err) is the container's underlying error for a container (not
\* absent, and matching inner, for Wrap(inner, msg)), the origin container
\* for a formatted derivative, the standard single-level unwrap otherwise.
C4_UnwrapOneLevel ==
    res.op = "Unwrap" =>
        LET e == res.in[1]
        IN  /\ e = NilErr => res.out = NilErr
            /\ (e # NilErr /\ e.tab = TError) => res.out = heap[e.data].err
            /\ (e # NilErr /\ WrapArg(e) # NilErr) =>
                   res.out # NilErr /\ Is(res.out, WrapArg(e))
            /\ (e # NilErr /\ e.tab = TFormattedError) =>
                   res.out = BoxPointer(TError, heap[e.data].parent)
            /\ (e # NilErr /\ e.tab \notin {TError, TFormattedError}) =>
                   res.out = ErrorsUnwrap(e)

\* C5: Join returns a container, skips absent entries, and every non-absent
\* input is matchable in the result, whatever its position.
C5_JoinMatchesEachInput ==
    res.op = "Join" =>
        /\ ~res.panic
        /\ res.out.tab = TError /\ res.out.data # 0
        /\ \A i \in 1..Len(res.in) :
              res.in[i] # NilErr => Is(res.out, res.in[i])

\* C6: As on a container binds the first error of the target's type in the
\* container's chain, depth-first, and returns false with the target
\* untouched when the chain holds none.
C6_AsFindsFirstOfType ==
    (res.op = "As" /\ res.in[1].tab = TError) =>
        /\ res.out = FirstOfType(res.in[1], res.typ)
        /\ res.flag = (FirstOfType(res.in[1], res.typ) # NilErr)

\* C7: MarshalJSON succeeds on every container and decodes to the lines of
\* its message; for Wrap(e, ctx) these are the lines of ctx, then those of e.
C7_MarshalJSONLines ==
    res.op = "MarshalJSON" =>
        LET c == res.in[1]
        IN  /\ ~res.panic
            /\ JSONUnmarshal(res.text) = Split(ErrorOf(c))
            /\ \A i \in WrapCalls :
                  (log[i].op = "Wrap" /\ log[i].out = c /\ ErrorOf(log[i].in[1]) # Panic)
                  => JSONUnmarshal(res.text)
                       = Split(log[i].msg) \o Split(ErrorOf(log[i].in[1]))

\* C8: IsNil is true exactly for the absent interface and for a typed nil
\* pointer; false for a non-nil pointer, a boxed value, a string alias and a
\* non-nil wrapper around a typed nil; it never faults.
C8_IsNilExact ==
    /\ \A e \in NilArgs :
          IsNil(e) = (e = NilErr \/ (e.tab \in PointerTypes /\ e.data = 0))
    /\ IsNil(NilErr) /\ IsNil(TypedNil)
    /\ ~IsNil(PtrErr) /\ ~IsNil(ValErr) /\ ~IsNil(StringErr) /\ ~IsNil(WrapsTypedNil)
    /\ res.op = "IsNil" => ~res.panic /\ res.flag = IsNil(res.in[1])

\* IsNil has been called on a typed nil pointer and answered true.
C8_Witness == res.op = "IsNil" /\ res.in[1] = TypedNil /\ res.flag

C10_FormatTransparent ==
    \A i \in 1..Len(log) :
        (log[i].op = "Format" /\ ~log[i].panic) =>
            LET f == log[i].out
                c == log[i].in[1]
            IN  /\ \A t \in ErrArgs : Is(f, t) = Is(c, t)
                /\ \A T \in TargetTypes :
                      As(c, T) # NilErr => As(f, T) = As(c, T)

\* C11: no operation changes a value already constructed: every cell of the
\* heap (a container's error, a derivative's rendered message and origin,
\* and the errors beneath them, which fix the container's message) stays as
\* it was.
C11_NoMutation ==
    [][ /\ Len(heap') >= Len(heap)
        /\ \A a \in 1..Len(heap) : heap'[a] = heap[a] ]_vars

\* A container was built, wrapped, a derivative was formatted from it and a
\* query has run; the container still holds the error New gave it.
C11_Witness ==
    /\ Len(log) = 2
    /\ log[1].op = "New" /\ log[2].op \in {"Wrap", "Format"}
    /\ log[2].in[1] = log[1].out
    /\ res.op \in {"Is", "As", "Unwrap", "Unformatted", "MarshalJSON"}
    /\ heap[log[1].out.data].err.tab = TErrorString
    /\ ErrorOf(log[1].out) = log[1].msg

\* The errors beneath a container: the chain of the error it holds.
Beneath(c) == ChainOf(heap[c.data].err)

\* C12: Wrap / Wrapf of a container c holds the join of exactly two causes,
\* the message error and c's underlying error, and c is no node of the
\* result's chain; in a chain built by New, Newf, Wrap and Wrapf alone no
\* container has another container beneath it.
C12_WrapDoesNotNest ==
    /\ \A i \in WrapCalls :
          LET c == log[i].in[1]
              u == heap[log[i].out.data].err
          IN  c.tab = TError =>
                /\ u.tab = TJoinError
                /\ Len(heap[u.data].errs) = 2
                /\ heap[u.data].errs[1].tab = TErrorString
                /\ heap[u.data].errs[2] = heap[c.data].err
                /\ \A k \in 1..Len(Beneath(log[i].out)) : Beneath(log[i].out)[k] # c
    /\ (\A i \in 1..Len(log) : log[i].op \in {"New", "Newf", "Wrap", "Wrapf"}) =>
          \A i \in 1..Len(log) :
              \A k \in 1..Len(Beneath(log[i].out)) : Beneath(log[i].out)[k].tab # TError

\* C13: the package's Is is reflexive: Is(err, err) is true for every
\* non-absent err, a standard error, a container or a formatted derivative.
C13_IsReflexive ==
    (res.op = "Is" /\ res.in[1] # NilErr /\ res.in[2] = res.in[1]) => res.flag

\* C14: every container the constructors return holds a non-absent error,
\* and Error(), MarshalJSON() and Format() on a container never fault.
C14_ContainersHoldAnError ==
    /\ \A c \in Containers : heap[c.data].err # NilErr
    /\ \A i \in 1..Len(log) : log[i].op = "Format" => ~log[i].panic
    /\ res.op \in {"Error", "MarshalJSON", "Format"} => ~res.panic

=============================================================================
